---- MODULE Spec2Model ----
(***************************************************************************)
(* Model of the Scaleway infrastructure agent (Docker/):                   *)
(*   tools/scaleway_cli.py  run_cli, validate_vpc, validate_object_storage,*)
(*                          validate_resource                              *)
(*   langchain_agent.py     DeepSeekLLM, list_resources,                   *)
(*                          generate_terraform_code, tools, get_agent,     *)
(*                          run_agent                                      *)
(*                                                                         *)
(* A Python call either returns a value or raises; both are modelled by an *)
(* outcome record [raised, exc, val, cmds] where cmds is the sequence of   *)
(* argument vectors handed to subprocess.run during the call and llm is    *)
(* the number of HTTP requests posted to the inference endpoint.           *)
(*                                                                         *)
(* Texts are sequences of tokens so that strip(), startswith(), string     *)
(* formatting and json.loads() are computed rather than assumed.           *)
(***************************************************************************)
EXTENDS Integers, Sequences, FiniteSets, TLC

\* ------------------------------------------------------------------ bounds
\* Longest JSON listing (number of objects) the CLI is taken to print.
MaxNets == 2
\* Longest "subnets" list of one listed network.
MaxSubnets == 2

\* Requests served concurrently (the endpoints are plain defs, which the
\* server runs on worker threads).
NumThreads == 2

\* ------------------------------------------------------------------- texts
\* A token of a text: whitespace, a word, a JSON array of objects, or a JSON
\* scalar.  j is the parsed value of a JSON array token and <<>> otherwise.
WS == [t |-> "ws", w |-> " ", j |-> <<>>]
W(s) == [t |-> "w", w |-> s, j |-> <<>>]
J(l) == [t |-> "json", w |-> "", j |-> l]
JNum == [t |-> "num", w |-> "7", j |-> <<>>]

RECURSIVE LStrip(_)
LStrip(s) == IF s # <<>> /\ Head(s).t = "ws" THEN LStrip(Tail(s)) ELSE s

RECURSIVE RStrip(_)
RStrip(s) ==
    IF s # <<>> /\ s[Len(s)].t = "ws" THEN RStrip(SubSeq(s, 1, Len(s) - 1)) ELSE s

\* str.strip()
Strip(s) == RStrip(LStrip(s))

\* str.startswith("CLI Error")
StartsWithCliError(s) == s # <<>> /\ s[1] = W("CLI Error")

\* Does word x occur in text s (x in s, for the words the model formats in)?
Contains(s, x) == \E i \in 1..Len(s) : s[i] = W(x)

\* ---------------------------------------------------------------- outcomes
NoVal == [kind |-> "none", valid |-> FALSE, text |-> <<>>]
Return(v, cmds, llm) ==
    [raised |-> FALSE, exc |-> "", val |-> v, cmds |-> cmds, llm |-> llm]
Raise(e, cmds, llm) ==
    [raised |-> TRUE, exc |-> e, val |-> NoVal, cmds |-> cmds, llm |-> llm]

\* The dicts the tools return.
ErrorDict(text) == [kind |-> "error", valid |-> FALSE, text |-> text]
ValidDict == [kind |-> "valid", valid |-> TRUE, text |-> <<>>]
InvalidDict(reason) == [kind |-> "valid", valid |-> FALSE, text |-> reason]
ItemsDict(text) == [kind |-> "items", valid |-> FALSE, text |-> text]
\* A str return value (run_cli, generate_terraform_code).
StrVal(text) == [kind |-> "str", valid |-> FALSE, text |-> text]

\* ----------------------------------------------------------------- run_cli
\* proc is what subprocess.run(command, capture_output=True, text=True,
\* check=True) does: exit status 0, a non-zero exit status (CalledProcessError)
\* or no child at all (OSError: the binary is missing or not executable).
run_cli(command, proc) ==
    CASE proc.kind = "exit0" ->
            LET stdout == Strip(proc.stdout)
                stderr == Strip(proc.stderr)
            IN  Return(StrVal(IF stdout # <<>> THEN stdout ELSE stderr),
                       <<command>>, 0)
      [] proc.kind = "nonzero" ->
            Return(StrVal(<<W("CLI Error"), W(": ")>> \o
                          (IF Strip(proc.stderr) # <<>>
                           THEN Strip(proc.stderr) ELSE Strip(proc.stdout))),
                   <<command>>, 0)
      [] OTHER -> Raise("OSError", <<command>>, 0)

\* -------------------------------------------------- process configuration
\* os.getenv("SCW_DEFAULT_PROJECT_ID"), fixed for the process lifetime.
SCW_DEFAULT_PROJECT_ID == "project-1"

\* An argument vector is a sequence of arguments; an argument is the sequence
\* of the pieces its f-string joins.
VpcValidateCommand ==
    << <<"scw">>, <<"vpc">>, <<"vpc">>, <<"list">>,
       <<"project-id=", SCW_DEFAULT_PROJECT_ID>>, <<"--output">>, <<"json">> >>

BucketValidateCommand(region) ==
    << <<"scw">>, <<"object">>, <<"bucket">>, <<"list">>,
       <<"region">>, <<region>>, <<"--output">>, <<"json">> >>

\* json.loads(output): succeeds on one JSON value, surrounded by whitespace at
\* most; raises json.JSONDecodeError on anything else.
JsonLoadsOk(output) ==
    Len(Strip(output)) = 1 /\ Strip(output)[1].t \in {"json", "num"}
\* The loaded value is iterable (a JSON array) rather than a scalar.
JsonIsArray(output) == Strip(output)[1].t = "json"
JsonValue(output) == Strip(output)[1].j

\* -------------------------------------------------------------- validate_vpc
\* Mutant of SubnetUses: only the first subnet of a network is compared.
SubnetUsesFirstOnly(subnets, cidr) ==
    subnets # <<>> /\ Head(subnets).hasCidr /\ Head(subnets).cidr = cidr

\* for subnet in net.get("subnets", []): if subnet.get("cidr") == cidr
RECURSIVE SubnetUses(_, _)
SubnetUses(subnets, cidr) ==
    IF subnets = <<>> THEN FALSE
    ELSE IF Head(subnets).hasCidr /\ Head(subnets).cidr = cidr THEN TRUE
    ELSE SubnetUses(Tail(subnets), cidr)

NetSubnets(net) == IF net.hasSubnets THEN net.subnets ELSE <<>>

\* for net in networks: ... return on the first network with a matching subnet
RECURSIVE ScanNetworks(_, _)
ScanNetworks(networks, cidr) ==
    IF networks = <<>> THEN ValidDict
    ELSE IF SubnetUses(NetSubnets(Head(networks)), cidr)
         THEN InvalidDict(<<W("CIDR "), W(cidr),
                            W(" already used in private network '"),
                            W(Head(networks).name), W("'")>>)
    ELSE ScanNetworks(Tail(networks), cidr)

JsonParsingError == ErrorDict(<<W("JSON parsing error: ")>>)

\* Mutant of validate_vpc: the listing is fetched before cidr is looked at.
validate_vpc_cli_first(params, proc) ==
    LET r == run_cli(VpcValidateCommand, proc)
        output == r.val.text
    IN  IF r.raised THEN r
        ELSE IF ~params.hasCidr \/ params.cidr = ""
             THEN Return(ErrorDict(<<W("Missing 'cidr' parameter for VPC validation.")>>),
                         r.cmds, 0)
        ELSE IF StartsWithCliError(output)
             THEN Return(ErrorDict(output), r.cmds, 0)
        ELSE IF ~JsonLoadsOk(output) \/ ~JsonIsArray(output)
             THEN Return(JsonParsingError, r.cmds, 0)
        ELSE Return(ScanNetworks(JsonValue(output), params.cidr), r.cmds, 0)

validate_vpc(params, proc) ==
    IF ~params.hasCidr \/ params.cidr = ""
    THEN Return(ErrorDict(<<W("Missing 'cidr' parameter for VPC validation.")>>),
                <<>>, 0)
    ELSE LET r == run_cli(VpcValidateCommand, proc)
             output == r.val.text
         IN  IF r.raised THEN r
             ELSE IF StartsWithCliError(output)
                  THEN Return(ErrorDict(output), r.cmds, 0)
             ELSE IF ~JsonLoadsOk(output) \/ ~JsonIsArray(output)
                  THEN Return(JsonParsingError, r.cmds, 0)
             ELSE Return(ScanNetworks(JsonValue(output), params.cidr), r.cmds, 0)

\* --------------------------------------------------- validate_object_storage
\* Mutant of ScanBuckets: only the first listed bucket is compared.
ScanBucketsFirstOnly(buckets, name, region) ==
    IF buckets # <<>> /\ Head(buckets).name = name
    THEN InvalidDict(<<W("Bucket '"), W(name),
                       W("' already exists in region "), W(region)>>)
    ELSE ValidDict

\* for bucket in buckets: if bucket.get("name") == name
RECURSIVE ScanBuckets(_, _, _)
ScanBuckets(buckets, name, region) ==
    IF buckets = <<>> THEN ValidDict
    ELSE IF Head(buckets).name = name
         THEN InvalidDict(<<W("Bucket '"), W(name),
                            W("' already exists in region "), W(region)>>)
    ELSE ScanBuckets(Tail(buckets), name, region)

\* params.get("region", "fr-par")
RegionOf(params) == IF params.hasRegion THEN params.region ELSE "fr-par"

validate_object_storage(params, proc) ==
    IF ~params.hasName \/ params.name = ""
    THEN Return(ErrorDict(<<W("Missing 'name' parameter for bucket validation.")>>),
                <<>>, 0)
    ELSE LET region == RegionOf(params)
             r == run_cli(BucketValidateCommand(region), proc)
             output == r.val.text
         IN  IF r.raised THEN r
             ELSE IF StartsWithCliError(output)
                  THEN Return(ErrorDict(output), r.cmds, 0)
             ELSE IF ~JsonLoadsOk(output) \/ ~JsonIsArray(output)
                  THEN Return(JsonParsingError, r.cmds, 0)
             ELSE Return(ScanBuckets(JsonValue(output), params.name, region),
                         r.cmds, 0)

\* ---------------------------------------------------------- validate_resource
validate_resource(resource_type, parameters, proc) ==
    IF resource_type = "vpc" THEN validate_vpc(parameters, proc)
    ELSE IF resource_type = "bucket" THEN validate_object_storage(parameters, proc)
    ELSE Return(ErrorDict(<<W("Validation for resource type '"), W(resource_type),
                            W("' not implemented.")>>), <<>>, 0)

\* ------------------------------------------------------------- list_resources
VpcListCommand(region) ==
    << <<"scw">>, <<"vpc">>, <<"vpc">>, <<"list">>,
       <<"project-id=", SCW_DEFAULT_PROJECT_ID>>, <<"region=", region>>,
       <<"--output">>, <<"json">> >>

BucketListCommand(region) ==
    << <<"scw">>, <<"object">>, <<"bucket">>, <<"list">>,
       <<"region=", region>>, <<"project-id=", SCW_DEFAULT_PROJECT_ID>>,
       <<"--output">>, <<"json">> >>

\* Mutant of list_resources: the listing is fetched a second time.
list_resources_twice(resource_type, region, proc) ==
    IF resource_type \notin {"vpc", "bucket"}
    THEN Return(ErrorDict(<<W("Unsupported resource type: "), W(resource_type)>>),
                <<>>, 0)
    ELSE LET command == IF resource_type = "vpc" THEN VpcListCommand(region)
                        ELSE BucketListCommand(region)
             r == run_cli(command, proc)
         IN  IF r.raised
             THEN Return(ErrorDict(<<W(r.exc)>>), r.cmds \o r.cmds, 0)
             ELSE Return(ItemsDict(r.val.text), r.cmds \o r.cmds, 0)

list_resources(resource_type, region, proc) ==
    IF resource_type \notin {"vpc", "bucket"}
    THEN Return(ErrorDict(<<W("Unsupported resource type: "), W(resource_type)>>),
                <<>>, 0)
    ELSE LET command == IF resource_type = "vpc" THEN VpcListCommand(region)
                        ELSE BucketListCommand(region)
             r == run_cli(command, proc)
         IN  IF r.raised
             THEN Return(ErrorDict(<<W(r.exc)>>), r.cmds, 0)   \* except Exception
             ELSE Return(ItemsDict(r.val.text), r.cmds, 0)

\* Mutant of DeepSeekLLM_call: a failed request is posted a second time.
DeepSeekLLM_call_retry(prompt, http) ==
    CASE http.kind = "ok" -> Return(StrVal(http.content), <<>>, 1)
      [] http.kind = "malformed" -> Raise("KeyError", <<>>, 1)
      [] http.kind = "status" -> Raise("HTTPError", <<>>, 2)
      [] OTHER -> Raise("ConnectionError", <<>>, 2)

\* ------------------------------------------------------------ DeepSeekLLM._call
\* http is what requests.post(...) and the response do: a 2xx response whose
\* body carries choices[0].message.content, a 2xx response without that field,
\* a non-2xx status (raise_for_status) or no response at all.  One request is
\* posted per call; nothing is retried.
DeepSeekLLM_call(prompt, http) ==
    CASE http.kind = "ok" -> Return(StrVal(http.content), <<>>, 1)
      [] http.kind = "malformed" -> Raise("KeyError", <<>>, 1)
      [] http.kind = "status" -> Raise("HTTPError", <<>>, 1)
      [] OTHER -> Raise("ConnectionError", <<>>, 1)

\* ------------------------------------------------------ generate_terraform_code
TerraformInstruction ==
    <<W("Respond ONLY with valid Terraform code"), W("\n\n")>>

generate_terraform_code(prompt, http) ==
    DeepSeekLLM_call(TerraformInstruction \o prompt, http)

\* ----------------------------------------------------------- input domains
\* Listed objects (section 6 of the interface: every object carries a name; a VPC
\* object may carry a "subnets" list whose entries may carry a "cidr").
\* The code reads "subnets" and "cidr" with .get() and indexes "name".
ListedCidrs == {"10.0.0.0/24"}
Cidrs == {"10.0.0.0/24", "10.0.1.0/24"}
ListedNames == <<"res-a", "res-b", "res-c", "res-d">>
Names == {"res-a", "res-b", "res-z"}
Regions == {"fr-par", "nl-ams"}

SubnetObjs ==
    {[hasCidr |-> FALSE, cidr |-> ""]} \cup
    {[hasCidr |-> TRUE, cidr |-> c] : c \in ListedCidrs}

SubnetLists == UNION {[1..n -> SubnetObjs] : n \in 0..MaxSubnets}

\* The object listed at position i.
ObjsAt(i) ==
    {[name |-> ListedNames[i], hasSubnets |-> FALSE, subnets |-> <<>>]} \cup
    {[name |-> ListedNames[i], hasSubnets |-> TRUE, subnets |-> sl] :
        sl \in SubnetLists}

Listings ==
    UNION {{l \in [1..n -> UNION {ObjsAt(i) : i \in 1..n}] :
                \A i \in 1..n : l[i] \in ObjsAt(i)} : n \in 0..MaxNets}

Exit0(out, err) == [kind |-> "exit0", stdout |-> out, stderr |-> err]
NonZero(out, err) == [kind |-> "nonzero", stdout |-> out, stderr |-> err]
SpawnFailure == [kind |-> "oserror", stdout |-> <<>>, stderr |-> <<>>]

\* What one subprocess.run of the CLI can do.
ProcOutcomes ==
    {Exit0(<<J(l), WS>>, <<>>) : l \in Listings} \cup
    {Exit0(o, <<>>) : o \in {<<>>, <<WS>>, <<W("not json"), WS>>, <<JNum, WS>>,
                             <<W("CLI Error"), W(" quota banner"), WS>>}} \cup
    {Exit0(o, <<W("warning"), WS>>) : o \in {<<>>, <<WS>>, <<J(<<>>), WS>>}} \cup
    {NonZero(o, e) : o \in {<<>>, <<W("usage"), WS>>},
                     e \in {<<>>, <<WS>>, <<W("denied"), WS>>}} \cup
    {SpawnFailure}

NoParams ==
    [hasCidr |-> FALSE, cidr |-> "", hasName |-> FALSE, name |-> "",
     hasRegion |-> FALSE, region |-> ""]

\* The parameters dict of a validate_resource call.
VpcParams ==
    {[NoParams EXCEPT !.hasRegion = hr, !.region = IF hr THEN "nl-ams" ELSE ""] :
        hr \in BOOLEAN} \cup
    {[NoParams EXCEPT !.hasCidr = TRUE, !.cidr = c] : c \in Cidrs \cup {""}}

BucketParams ==
    {[NoParams EXCEPT !.hasRegion = TRUE, !.region = r] : r \in Regions} \cup
    {[NoParams EXCEPT !.hasName = TRUE, !.name = n] : n \in Names \cup {""}} \cup
    {[NoParams EXCEPT !.hasName = TRUE, !.name = n,
                      !.hasRegion = TRUE, !.region = r] :
        n \in Names, r \in Regions}

ResourceTypes == {"vpc", "bucket", "instance"}

ParamsFor(rtype) ==
    IF rtype = "vpc" THEN VpcParams
    ELSE IF rtype = "bucket" THEN BucketParams ELSE {NoParams}

Http(kind, content) == [kind |-> kind, content |-> content]
HttpFailures ==
    {Http("status", <<>>), Http("network", <<>>), Http("malformed", <<>>)}
\* What the endpoint can answer to generate_terraform_code.
ToolHttpOutcomes ==
    {Http("ok", <<W("resource \"scaleway_vpc\" \"main\" {}")>>)} \cup HttpFailures

\* ------------------------------------------------------------------- state
VARIABLES
    tool_call,        \* the last direct call of a tool function and its outcome
    status,           \* of the run: Idle, Running, Finished, Exhausted, Failed
    iteration_count,  \* iterations of the agent loop completed
    transcript,       \* system turn, user turn, then the steps of the run
    last_completion,  \* what the loop's latest completion call returned
    outcome,          \* what run_agent delivers to its caller
    fault,            \* where an exception that ended the run was raised
    completion_calls, \* completion calls issued by the loop
    dispatches,       \* handlers of registered tools invoked by the loop
    subprocess_calls, \* argument vectors run by the handlers the loop invoked
    tool_llm_calls,   \* completion calls issued by handlers the loop invoked
    http_requests,    \* requests posted by the completion calls of the loop
    response,         \* what the request handler sends to the HTTP caller
    agent_cache,      \* the module global _agent (0 is None, else an instance)
    agents_built,     \* agents constructed by initialize_agent so far
    threads           \* concurrent requests: each one's position and run state

runvars ==
    <<status, iteration_count, transcript, last_completion, outcome, fault,
      completion_calls, dispatches, subprocess_calls, tool_llm_calls,
      http_requests, response>>
concvars == <<agent_cache, agents_built, threads>>
vars == <<tool_call, runvars, concvars>>

\* ------------------------------------------------------- direct tool calls
NoOutcome == Return(NoVal, <<>>, 0)
NoCall ==
    [fn |-> "", rtype |-> "", params |-> NoParams, region |-> "",
     proc |-> SpawnFailure, http |-> Http("network", <<>>), out |-> NoOutcome]

CallRunCli ==
    /\ tool_call = NoCall
    /\ \E proc \in ProcOutcomes :
          tool_call' = [NoCall EXCEPT !.fn = "run_cli", !.proc = proc,
                            !.out = run_cli(VpcValidateCommand, proc)]
    /\ UNCHANGED <<runvars, concvars>>

CallValidateResource ==
    /\ tool_call = NoCall
    /\ \E rtype \in ResourceTypes, proc \in ProcOutcomes :
       \E params \in ParamsFor(rtype) :
          tool_call' = [NoCall EXCEPT !.fn = "validate_resource",
                            !.rtype = rtype, !.params = params, !.proc = proc,
                            !.out = validate_resource(rtype, params, proc)]
    /\ UNCHANGED <<runvars, concvars>>

CallListResources ==
    /\ tool_call = NoCall
    /\ \E rtype \in ResourceTypes, region \in Regions, proc \in ProcOutcomes :
          tool_call' = [NoCall EXCEPT !.fn = "list_resources",
                            !.rtype = rtype, !.region = region, !.proc = proc,
                            !.out = list_resources(rtype, region, proc)]
    /\ UNCHANGED <<runvars, concvars>>

CallGenerateTerraform ==
    /\ tool_call = NoCall
    /\ \E http \in ToolHttpOutcomes :
          tool_call' = [NoCall EXCEPT !.fn = "generate_terraform", !.http = http,
                            !.out = generate_terraform_code(<<W("a vpc")>>, http)]
    /\ UNCHANGED <<runvars, concvars>>

\* ------------------------------------------------------------ the agent run
NoResult == [kind |-> "none", text |-> <<>>, exc |-> ""]
\* Nothing sent yet.
NoResponse == [endpoint |-> "", kind |-> "none", text |-> <<>>]
NoFault == [where |-> "none", exc |-> "", tool |-> ""]

RunIdle ==
    /\ status = "Idle"
    /\ iteration_count = 0
    /\ transcript = <<>>
    /\ last_completion = <<>>
    /\ outcome = NoResult
    /\ fault = NoFault
    /\ completion_calls = 0
    /\ dispatches = 0
    /\ subprocess_calls = 0
    /\ tool_llm_calls = 0
    /\ http_requests = 0
    /\ response = NoResponse

\* No concurrent request is being served.
ConcIdle == agent_cache = 0 /\ agents_built = 0 /\ threads = <<>>

\* initialize_agent(..., max_iterations=3)
max_iterations == 3
\* Mutant of handle_parsing_errors: the executor's default.
handle_parsing_errors_off == FALSE

\* initialize_agent(..., handle_parsing_errors=True)
handle_parsing_errors == TRUE

\* Mutant of ToolNames: a name the tools list does not hold resolves too.
ToolNamesUnchecked ==
    {"validate_resource", "list_resources", "generate_terraform",
     "delete_resources"}

\* The names of the tools list.
ToolNames == {"validate_resource", "list_resources", "generate_terraform"}

\* Mutant of should_continue: the bound is off by one.
should_continue_inclusive(iterations) == iterations <= max_iterations

\* The executor built by initialize_agent loops while the iteration count is
\* below max_iterations.
should_continue(iterations) == iterations < max_iterations

\* The reply of the executor when the loop ends without a final answer
\* (early stopping by "force", the default of initialize_agent).
StoppedResponse == <<W("Agent stopped due to iteration limit or time limit.")>>

\* ---- completions and their parsing (ZERO_SHOT_REACT_DESCRIPTION)
FinalText(x) ==
    <<W("Thought: done"), WS, W("Final Answer:"), WS, W(x), WS>>
ActionText(tool, input) ==
    <<W("Thought: act"), WS, W("Action:"), WS, W(tool), WS,
      W("Action Input:"), WS, W(input)>>

Answers == {"resource \"scaleway_vpc\" \"a\" {}", "No change needed"}
ActionInputs == {"vpc", "{\"resource_type\": \"vpc\"}"}
RequestedTools == ToolNames \cup {"delete_resources"}

Completions ==
    {FinalText(x) : x \in Answers} \cup
    {ActionText(t, i) : t \in RequestedTools, i \in ActionInputs} \cup
    {ActionText("list_resources", "bucket")} \cup
    {ActionText("list_resources", "vpc") \o <<WS>> \o FinalText("No change needed")} \cup
    {<<W("I will create the VPC now."), WS>>}

\* The first and the last position of word x in text s (0 when absent).
FirstIndex(s, x) ==
    IF Contains(s, x) THEN CHOOSE i \in 1..Len(s) :
                              s[i] = W(x) /\ \A k \in 1..(i - 1) : s[k] # W(x)
    ELSE 0
LastIndex(s, x) ==
    IF Contains(s, x) THEN CHOOSE i \in 1..Len(s) :
                              s[i] = W(x) /\ \A k \in (i + 1)..Len(s) : s[k] # W(x)
    ELSE 0

includes_answer(text) == Contains(text, "Final Answer:")
\* "Action:" followed, later, by "Action Input:"
action_match(text) ==
    /\ Contains(text, "Action:") /\ Contains(text, "Action Input:")
    /\ FirstIndex(text, "Action:") < LastIndex(text, "Action Input:")
ActionInputIndex(text) ==
    CHOOSE k \in 1..Len(text) :
        /\ k > FirstIndex(text, "Action:") /\ text[k] = W("Action Input:")
        /\ \A m \in (FirstIndex(text, "Action:") + 1)..(k - 1) :
              text[m] # W("Action Input:")
\* The tool named and the input given by a completion that matches.
ParsedTool(text) ==
    Strip(SubSeq(text, FirstIndex(text, "Action:") + 1, ActionInputIndex(text) - 1))
ParsedInput(text) == Strip(SubSeq(text, ActionInputIndex(text) + 1, Len(text)))
\* Mutant of ParsedAnswer: the answer is not stripped.
ParsedAnswerUnstripped(text) ==
    SubSeq(text, LastIndex(text, "Final Answer:") + 1, Len(text))

\* text.split("Final Answer:")[-1].strip()
ParsedAnswer(text) ==
    Strip(SubSeq(text, LastIndex(text, "Final Answer:") + 1, Len(text)))

\* The one word of a text, as the str a handler compares ("" otherwise).
WordOf(text) == IF Len(text) = 1 /\ text[1].t = "w" THEN text[1].w ELSE ""

\* What the output parser makes of a completion.
ParseKind(text) ==
    IF action_match(text)
    THEN (IF includes_answer(text) THEN "both" ELSE "action")
    ELSE (IF includes_answer(text) THEN "final" ELSE "neither")

\* ---- the tools list: Tool.from_function(func=..., name=...)
\* A Tool hands its function the action input as one positional str.
\* validate_resource has two required parameters, so that call raises
\* TypeError; list_resources takes the str as resource_type and its default
\* region; generate_terraform_code takes it as the prompt.
ToolRun(name, input, proc, http) ==
    CASE name = "validate_resource" -> Raise("TypeError", <<>>, 0)
      [] name = "list_resources" -> list_resources(WordOf(input), "fr-par", proc)
      [] OTHER -> generate_terraform_code(input, http)

\* ---- transcript turns
SystemTurn == [role |-> "system", text |-> <<W("format instructions")>>,
               obs |-> NoVal, src |-> ""]
UserTurn(prompt) == [role |-> "user", text |-> prompt, obs |-> NoVal, src |-> ""]
AssistantTurn(text) == [role |-> "assistant", text |-> text, obs |-> NoVal, src |-> ""]
ObservationTurn(obs, src) == [role |-> "observation", text |-> <<>>, obs |-> obs, src |-> src]

Prompts == {<<W("create a vpc 10.0.0.0/24")>>}

\* What the endpoint can answer to a completion call of the loop.
LoopHttpOutcomes == {Http("ok", c) : c \in Completions} \cup HttpFailures
\* What a subprocess can do during a run.
RunProcOutcomes ==
    {Exit0(<<J(<<>>), WS>>, <<>>), NonZero(<<>>, <<W("denied"), WS>>), SpawnFailure}

Returned(text) == [kind |-> "returned", text |-> text, exc |-> ""]
Raised(exc) == [kind |-> "raised", text |-> <<>>, exc |-> exc]

\* run_agent(prompt): agent = get_agent(); agent.run(prompt) starts the loop.
StartRun ==
    /\ status = "Idle" /\ response = NoResponse
    /\ \E prompt \in Prompts :
          transcript' = <<SystemTurn, UserTurn(prompt)>>
    /\ status' = "Running"
    /\ UNCHANGED <<concvars, response, tool_call, iteration_count,
                   last_completion, outcome, fault, completion_calls, dispatches,
                   subprocess_calls, tool_llm_calls, http_requests>>

\* The completion call of one iteration.
Completion(http) == DeepSeekLLM_call(transcript, http)

\* An iteration whose completion call fails: the exception leaves agent.run.
StepUpstreamFailure ==
    /\ status = "Running" /\ should_continue(iteration_count)
    /\ \E http \in LoopHttpOutcomes :
          /\ Completion(http).raised
          /\ outcome' = Raised(Completion(http).exc)
          /\ fault' = [where |-> "completion", exc |-> Completion(http).exc,
                       tool |-> ""]
          /\ http_requests' = http_requests + Completion(http).llm
    /\ status' = "Failed"
    /\ completion_calls' = completion_calls + 1
    /\ last_completion' = <<>>
    /\ UNCHANGED <<concvars, response, tool_call, iteration_count, transcript,
                   dispatches, subprocess_calls, tool_llm_calls>>

\* The loop ends the run with the answer the completion carries.
Finish(text) ==
    /\ status' = "Finished"
    /\ outcome' = Returned(ParsedAnswer(text))
    /\ last_completion' = text
    /\ completion_calls' = completion_calls + 1
    /\ http_requests' = http_requests + Completion(Http("ok", text)).llm
    /\ UNCHANGED <<concvars, response, tool_call, iteration_count, transcript,
                   fault, dispatches, subprocess_calls, tool_llm_calls>>

\* Mutant of Step: the observation is recorded before the completion.
StepObservationFirst(text, obs, src, ncmds, nllm, dispatched) ==
    /\ transcript' = transcript \o <<ObservationTurn(obs, src), AssistantTurn(text)>>
    /\ iteration_count' = iteration_count + 1
    /\ last_completion' = text
    /\ completion_calls' = completion_calls + 1
    /\ dispatches' = dispatches + (IF dispatched THEN 1 ELSE 0)
    /\ subprocess_calls' = subprocess_calls + ncmds
    /\ tool_llm_calls' = tool_llm_calls + nllm
    /\ http_requests' = http_requests + Completion(Http("ok", text)).llm
    /\ UNCHANGED <<concvars, response, tool_call, status, outcome, fault>>

\* The loop records a step (the completion and its observation) and goes on.
Step(text, obs, src, ncmds, nllm, dispatched) ==
    /\ transcript' = transcript \o <<AssistantTurn(text), ObservationTurn(obs, src)>>
    /\ iteration_count' = iteration_count + 1
    /\ last_completion' = text
    /\ completion_calls' = completion_calls + 1
    /\ dispatches' = dispatches + (IF dispatched THEN 1 ELSE 0)
    /\ subprocess_calls' = subprocess_calls + ncmds
    /\ tool_llm_calls' = tool_llm_calls + nllm
    /\ http_requests' = http_requests + Completion(Http("ok", text)).llm
    /\ UNCHANGED <<concvars, response, tool_call, status, outcome, fault>>

\* An iteration whose completion is a final answer.
StepFinalAnswer ==
    /\ status = "Running" /\ should_continue(iteration_count)
    /\ \E http \in LoopHttpOutcomes :
          /\ ~Completion(http).raised
          /\ ParseKind(http.content) = "final"
          /\ Finish(http.content)

ParseErrorObservation == StrVal(<<W("Invalid or incomplete response")>>)

\* What the executor does with a completion its output parser rejects: with
\* handle_parsing_errors the failure is recorded as the step's observation,
\* without it the parser's exception leaves agent.run.
ParseFailure(text) ==
    IF handle_parsing_errors
    THEN Step(text, ParseErrorObservation, "parse_error", 0, 0, FALSE)
    ELSE /\ status' = "Failed"
         /\ outcome' = Raised("OutputParserException")
         /\ fault' = [where |-> "parser", exc |-> "OutputParserException",
                      tool |-> ""]
         /\ last_completion' = text
         /\ completion_calls' = completion_calls + 1
         /\ http_requests' = http_requests + Completion(Http("ok", text)).llm
         /\ UNCHANGED <<concvars, response, tool_call, iteration_count,
                        transcript, dispatches, subprocess_calls, tool_llm_calls>>

\* An iteration whose completion has neither a final answer nor an action:
\* with handle_parsing_errors the parse failure becomes the observation.
StepParseError ==
    /\ status = "Running" /\ should_continue(iteration_count)
    /\ \E http \in LoopHttpOutcomes :
          /\ ~Completion(http).raised
          /\ ParseKind(http.content) = "neither"
          /\ ParseFailure(http.content)

\* An iteration whose completion has an action and a final answer: the parser
\* of the installed library either rejects it (a parse failure) ...
StepBothRejected ==
    /\ status = "Running" /\ should_continue(iteration_count)
    /\ \E http \in LoopHttpOutcomes :
          /\ ~Completion(http).raised
          /\ ParseKind(http.content) = "both"
          /\ ParseFailure(http.content)

\* ... or takes the final answer.
StepBothFinal ==
    /\ status = "Running" /\ should_continue(iteration_count)
    /\ \E http \in LoopHttpOutcomes :
          /\ ~Completion(http).raised
          /\ ParseKind(http.content) = "both"
          /\ Finish(http.content)

InvalidToolObservation(name) ==
    StrVal(<<W(name), W(" is not a valid tool, try another one.")>>)

\* An iteration whose action names no tool of the tools list.
StepUnknownTool ==
    /\ status = "Running" /\ should_continue(iteration_count)
    /\ \E http \in LoopHttpOutcomes :
          /\ ~Completion(http).raised
          /\ ParseKind(http.content) = "action"
          /\ WordOf(ParsedTool(http.content)) \notin ToolNames
          /\ Step(http.content,
                  InvalidToolObservation(WordOf(ParsedTool(http.content))),
                  "invalid_tool", 0, 0, FALSE)

\* An iteration whose action names a tool: its handler runs; what it returns
\* is the observation, what it raises leaves agent.run.
StepToolCall ==
    /\ status = "Running" /\ should_continue(iteration_count)
    /\ \E http \in LoopHttpOutcomes, proc \in RunProcOutcomes,
          http2 \in ToolHttpOutcomes :
          /\ ~Completion(http).raised
          /\ ParseKind(http.content) = "action"
          /\ WordOf(ParsedTool(http.content)) \in ToolNames
          /\ LET name == WordOf(ParsedTool(http.content))
                 r == ToolRun(name, ParsedInput(http.content), proc, http2)
             IN  IF r.raised
                 THEN /\ status' = "Failed"
                      /\ outcome' = Raised(r.exc)
                      /\ fault' = [where |-> "tool", exc |-> r.exc, tool |-> name]
                      /\ last_completion' = http.content
                      /\ completion_calls' = completion_calls + 1
                      /\ dispatches' = dispatches + 1
                      /\ subprocess_calls' = subprocess_calls + Len(r.cmds)
                      /\ tool_llm_calls' = tool_llm_calls + r.llm
                      /\ http_requests' = http_requests + Completion(http).llm
                      /\ UNCHANGED <<concvars, response, tool_call,
                                     iteration_count, transcript>>
                 ELSE Step(http.content, r.val, name, Len(r.cmds), r.llm, TRUE)

\* Mutant of Exhaust: the loop is not left at the limit.
ExhaustNever ==
    /\ status = "Running" /\ ~should_continue(iteration_count)
    /\ UNCHANGED vars

\* The loop is left without a final answer: agent.run returns the stopped
\* response as its output.
Exhaust ==
    /\ status = "Running" /\ ~should_continue(iteration_count)
    /\ status' = "Exhausted"
    /\ outcome' = Returned(StoppedResponse)
    /\ UNCHANGED <<concvars, response, tool_call, iteration_count, transcript,
                   last_completion, fault, completion_calls, dispatches,
                   subprocess_calls, tool_llm_calls, http_requests>>

\* ---- main.py: the request handlers
Ended == {"Finished", "Exhausted", "Failed"}

\* POST /ui: process_form calls run_agent (StartRun and the steps above) in a
\* try block; what run_agent returned is rendered as iac_code, what it raised
\* is rendered as "Error: ..." in the same page.
process_form ==
    /\ status \in Ended /\ response = NoResponse
    /\ response' =
          IF outcome.kind = "returned"
          THEN [endpoint |-> "/ui", kind |-> "text", text |-> outcome.text]
          ELSE [endpoint |-> "/ui", kind |-> "error",
                text |-> <<W("Error: "), W(outcome.exc)>>]
    /\ UNCHANGED <<concvars, tool_call, status, iteration_count, transcript,
                   last_completion, outcome, fault, completion_calls, dispatches,
                   subprocess_calls, tool_llm_calls, http_requests>>

\* POST /agent: agent_api is a plain def, so request.json() hands back a
\* coroutine that is never awaited and body.get("prompt") raises
\* AttributeError before the try block: run_agent is never reached and the
\* exception leaves the handler.
agent_api ==
    /\ status = "Idle" /\ response = NoResponse
    /\ response' = [endpoint |-> "/agent", kind |-> "fault",
                    text |-> <<W("AttributeError")>>]
    /\ UNCHANGED <<concvars, tool_call, status, iteration_count, transcript,
                   last_completion, outcome, fault, completion_calls, dispatches,
                   subprocess_calls, tool_llm_calls, http_requests>>

Init == tool_call = NoCall /\ RunIdle /\ ConcIdle
Next ==
    \/ StartRun
    \/ StepUpstreamFailure
    \/ StepFinalAnswer
    \/ StepParseError
    \/ StepBothRejected
    \/ StepBothFinal
    \/ StepUnknownTool
    \/ StepToolCall
    \/ Exhaust
    \/ process_form
    \/ agent_api
Spec == Init /\ [][Next]_vars

\* The steps of a run.  Every call a step makes (the completion request, the
\* subprocess) returns or fails, so a step that can be taken is taken.
RunStep ==
    \/ StepUpstreamFailure
    \/ StepFinalAnswer
    \/ StepParseError
    \/ StepBothRejected
    \/ StepBothFinal
    \/ StepUnknownTool
    \/ StepToolCall
    \/ Exhaust
SpecLive == Init /\ [][Next]_vars /\ WF_vars(RunStep)

\* ------------------------------------------------- concurrent requests
\* Each request runs run_agent on its own thread: get_agent() (the check of
\* the global, the construction, the assignment and the return are separate
\* steps, with no lock), then agent.run(prompt).
Threads == 1..NumThreads

ThreadIdle ==
    [pc |-> "idle", moves |-> 0, built |-> 0, agent |-> 0, status |-> "Idle",
     iteration_count |-> 0, transcript |-> <<>>]

\* Mutant of Slot: the run state is kept on the shared agent.
SlotShared(t) == 1

\* agent.run(prompt) keeps the iteration count and the steps of a run in
\* locals of the call: the run state of thread t is its own.
Slot(t) == t

\* A turn of the transcript of a concurrent run, with the thread whose step
\* wrote it.
TurnBy(turn, t) ==
    [role |-> turn.role, text |-> turn.text, obs |-> turn.obs, src |-> turn.src,
     by |-> t]

ConcCompletions ==
    {FinalText("No change needed"), ActionText("list_resources", "vpc")}
ConcHttpOutcomes == {Http("ok", c) : c \in ConcCompletions} \cup {Http("status", <<>>)}
ConcProc == Exit0(<<J(<<>>), WS>>, <<>>)

Moved(t) == [threads EXCEPT ![t].moves = @ + 1]

\* A request arrives: process_form calls run_agent, which enters get_agent.
Request(t) ==
    /\ threads[t].pc = "idle"
    /\ threads' = [Moved(t) EXCEPT ![t].pc = "check"]
    /\ UNCHANGED <<tool_call, runvars, agent_cache, agents_built>>

\* if _agent is None:
GetAgentCheck(t) ==
    /\ threads[t].pc = "check"
    /\ threads' = [Moved(t) EXCEPT
                      ![t].pc = IF agent_cache = 0 THEN "construct" ELSE "return"]
    /\ UNCHANGED <<tool_call, runvars, agent_cache, agents_built>>

\* llm = DeepSeekLLM(...); initialize_agent(...) builds a new agent
GetAgentConstruct(t) ==
    /\ threads[t].pc = "construct"
    /\ agents_built' = agents_built + 1
    /\ threads' = [Moved(t) EXCEPT ![t].pc = "assign",
                                   ![t].built = agents_built + 1]
    /\ UNCHANGED <<tool_call, runvars, agent_cache>>

\* _agent = <the agent built>
GetAgentAssign(t) ==
    /\ threads[t].pc = "assign"
    /\ agent_cache' = threads[t].built
    /\ threads' = [Moved(t) EXCEPT ![t].pc = "run_start", ![t].built = 0]
    /\ UNCHANGED <<tool_call, runvars, agents_built>>

\* return _agent; agent.run(prompt) seeds the run
GetAgentReturn(t) ==
    /\ threads[t].pc \in {"return", "run_start"}
    /\ threads' = [[Moved(t) EXCEPT ![t].pc = "run", ![t].agent = agent_cache]
                      EXCEPT ![Slot(t)].status = "Running",
                             ![Slot(t)].transcript =
                                 <<TurnBy(SystemTurn, t),
                                   TurnBy(UserTurn(<<W("create a vpc")>>), t)>>]
    /\ UNCHANGED <<tool_call, runvars, agent_cache, agents_built>>

\* The run state after one iteration of the loop of thread t.
ConcIterate(t, http) ==
    LET run == threads[Slot(t)]
        r == DeepSeekLLM_call(run.transcript, http)
        text == http.content
        kind == ParseKind(text)
        tool == ToolRun(WordOf(ParsedTool(text)), ParsedInput(text), ConcProc,
                        Http("status", <<>>))
        obs == IF kind = "action" THEN tool.val ELSE ParseErrorObservation
        src == IF kind = "action" THEN WordOf(ParsedTool(text)) ELSE "parse_error"
    IN  IF r.raised THEN [Moved(t) EXCEPT ![Slot(t)].status = "Failed"]
        ELSE IF kind = "final" THEN [Moved(t) EXCEPT ![Slot(t)].status = "Finished"]
        ELSE [Moved(t) EXCEPT
                 ![Slot(t)].iteration_count = @ + 1,
                 ![Slot(t)].transcript =
                     @ \o <<TurnBy(AssistantTurn(text), t),
                            TurnBy(ObservationTurn(obs, src), t)>>]

ConcStep(t) ==
    /\ threads[t].pc = "run"
    /\ threads[Slot(t)].status = "Running"
    /\ should_continue(threads[Slot(t)].iteration_count)
    /\ \E http \in ConcHttpOutcomes : threads' = ConcIterate(t, http)
    /\ UNCHANGED <<tool_call, runvars, agent_cache, agents_built>>

ConcExhaust(t) ==
    /\ threads[t].pc = "run"
    /\ threads[Slot(t)].status = "Running"
    /\ ~should_continue(threads[Slot(t)].iteration_count)
    /\ threads' = [Moved(t) EXCEPT ![Slot(t)].status = "Exhausted"]
    /\ UNCHANGED <<tool_call, runvars, agent_cache, agents_built>>

InitConc ==
    /\ tool_call = NoCall /\ RunIdle
    /\ agent_cache = 0 /\ agents_built = 0
    /\ threads = [t \in Threads |-> ThreadIdle]
NextConc ==
    \E t \in Threads :
        \/ Request(t)
        \/ GetAgentCheck(t)
        \/ GetAgentConstruct(t)
        \/ GetAgentAssign(t)
        \/ GetAgentReturn(t)
        \/ ConcStep(t)
        \/ ConcExhaust(t)
SpecConc == InitConc /\ [][NextConc]_vars

InitTools == tool_call = NoCall /\ RunIdle /\ ConcIdle
NextTools ==
    \/ CallRunCli
    \/ CallValidateResource
    \/ CallListResources
    \/ CallGenerateTerraform
SpecTools == InitTools /\ [][NextTools]_vars

\* ------------------------------------- the tools called directly and by a run
\* One process image: either a tool function is called directly, or a request
\* to the front end starts a run whose loop dispatches the tools.
NextAll ==
    \/ tool_call = NoCall /\ Next
    \/ status = "Idle" /\ response = NoResponse /\ NextTools
SpecAll == Init /\ [][NextAll]_vars

\* ================================================================== claims

\* ---- C1
\* C1: in every run the loop issues at most 3 completion calls:
\* iteration_count <= 3 and completion_calls <= 3 in every reachable state.
C1_AtMostThreeCompletionCalls ==
    /\ iteration_count <= 3
    /\ completion_calls <= 3
\* A run that used the whole budget: three completion calls, then Exhausted.
C1_Witness == status = "Exhausted" /\ completion_calls = 3 /\ iteration_count = 3

\* ---- C2
\* C2 (as claimed): a run that uses up its 3 iterations without a final answer
\* never ends in the outcome kind of a successful run, a normally returned
\* answer text.
C2_ExhaustionIsDistinctOutcome ==
    status = "Exhausted" => outcome.kind # "returned"

\* ---- C3
\* C3 (as claimed): no failure inside a tool handler (a non-zero CLI exit, a JSON
\* parse error, a failed model call of generate_terraform) ends the run: the
\* run never fails with an exception raised in a handler's body.
HandlerBodyFailures == {"HTTPError", "ConnectionError", "KeyError", "OSError"}
C3_HandlerFailuresBecomeObservations ==
    ~(status = "Failed" /\ fault.where = "tool" /\ fault.exc \in HandlerBodyFailures)

\* ---- C4
\* C4 (as claimed): list_resources returns an items listing only for "vpc" or
\* "bucket" with a CLI call that succeeded, an error dict in every other case,
\* and never raises.
C4_ListResourcesOkOnlyOnSuccess ==
    tool_call.fn = "list_resources" =>
        /\ ~tool_call.out.raised
        /\ tool_call.out.val.kind \in {"items", "error"}
        /\ tool_call.out.val.kind = "items" <=>
              (tool_call.rtype \in {"vpc", "bucket"} /\ tool_call.proc.kind = "exit0")

\* The text a successful CLI call hands back: stdout, or stderr when stdout is
\* blank, without the surrounding whitespace.
PrintedBy(proc) ==
    IF Strip(proc.stdout) # <<>> THEN Strip(proc.stdout) ELSE Strip(proc.stderr)
\* The CLI call succeeded and printed one JSON array of objects.
PrintedListing(proc) ==
    /\ proc.kind = "exit0"
    /\ Len(PrintedBy(proc)) = 1
    /\ PrintedBy(proc)[1].t = "json"
ListingOf(proc) == PrintedBy(proc)[1].j

\* Some subnet of some listed network has cidr c.
CidrListed(listing, c) ==
    \E i \in 1..Len(listing) :
        /\ listing[i].hasSubnets
        /\ \E k \in 1..Len(listing[i].subnets) :
              /\ listing[i].subnets[k].hasCidr
              /\ listing[i].subnets[k].cidr = c

\* ---- C5
\* C5: for every CIDR c and every VPC listing the CLI printed,
\* validate_resource("vpc", {cidr: c}) returns valid=false with a reason
\* that contains c exactly when some subnet of some listed network has cidr c,
\* and valid=true when none has.
C5_VpcConflictIffCidrListed ==
    (/\ tool_call.fn = "validate_resource" /\ tool_call.rtype = "vpc"
     /\ tool_call.params.hasCidr /\ tool_call.params.cidr # ""
     /\ PrintedListing(tool_call.proc)) =>
        LET c == tool_call.params.cidr
            used == CidrListed(ListingOf(tool_call.proc), c)
            val == tool_call.out.val
        IN  /\ ~tool_call.out.raised
            /\ val.kind = "valid"
            /\ val.valid = ~used
            /\ used => Contains(val.text, c)
            /\ ~used => val = ValidDict
\* The conflict sits in the last subnet of the last listed network only.
C5_Witness ==
    /\ tool_call.fn = "validate_resource" /\ tool_call.rtype = "vpc"
    /\ tool_call.params.hasCidr /\ tool_call.params.cidr = "10.0.0.0/24"
    /\ PrintedListing(tool_call.proc)
    /\ LET l == ListingOf(tool_call.proc)
       IN  /\ Len(l) = 2 /\ ~CidrListed(<<l[1]>>, "10.0.0.0/24")
           /\ l[2].hasSubnets /\ Len(l[2].subnets) = 2
           /\ ~l[2].subnets[1].hasCidr
           /\ l[2].subnets[2].hasCidr
    /\ tool_call.out.val.kind = "valid" /\ ~tool_call.out.val.valid

\* ---- C6
\* C6 (as claimed): run_cli never raises, whatever the subprocess does; on a
\* non-zero exit its result is marked as a CLI error and carries stderr, or
\* stdout when stderr is blank.
C6_RunCliNeverRaises ==
    tool_call.fn = "run_cli" =>
        /\ ~tool_call.out.raised
        /\ tool_call.proc.kind = "nonzero" =>
              LET text == tool_call.out.val.text
                  err == Strip(tool_call.proc.stderr)
                  out == Strip(tool_call.proc.stdout)
              IN  /\ StartsWithCliError(text)
                  /\ SubSeq(text, 3, Len(text)) = (IF err # <<>> THEN err ELSE out)

\* ---- C7
\* C7: whenever the loop receives a well-formed "Final Answer: X" completion
\* the run ends Finished and returns exactly X, that iteration dispatches no
\* tool, and once the run is Finished no completion call and no tool dispatch
\* follows.
C7_FinalAnswerEndsRun ==
    [][/\ \A x \in Answers :
            (completion_calls' = completion_calls + 1
             /\ last_completion' = FinalText(x)) =>
                /\ status' = "Finished"
                /\ outcome' = Returned(<<W(x)>>)
                /\ dispatches' = dispatches
                /\ subprocess_calls' = subprocess_calls
                /\ tool_llm_calls' = tool_llm_calls
       /\ status = "Finished" =>
            /\ status' = "Finished"
            /\ completion_calls' = completion_calls
            /\ dispatches' = dispatches
            /\ outcome' = outcome]_vars
\* A final answer received in the third iteration, after two recorded steps.
C7_Witness ==
    /\ status = "Finished" /\ iteration_count = 2 /\ completion_calls = 3
    /\ \E x \in Answers :
          last_completion = FinalText(x) /\ outcome = Returned(<<W(x)>>)

\* ---- C8
\* C8: whenever the loop receives a completion whose Action names a tool that
\* is not validate_resource, list_resources or generate_terraform, the run
\* stays Running, no handler is invoked, and the next transcript turn after
\* the completion is an Observation saying the tool is not valid.
C8_UnknownToolBecomesObservation ==
    [][\A t \in RequestedTools \ {"validate_resource", "list_resources",
                                  "generate_terraform"}, i \in ActionInputs :
          (completion_calls' = completion_calls + 1
           /\ last_completion' = ActionText(t, i)) =>
              /\ status' = "Running"
              /\ fault' = NoFault
              /\ dispatches' = dispatches
              /\ subprocess_calls' = subprocess_calls
              /\ tool_llm_calls' = tool_llm_calls
              /\ Len(transcript') = Len(transcript) + 2
              /\ SubSeq(transcript', 1, Len(transcript)) = transcript
              /\ transcript'[Len(transcript) + 1] = AssistantTurn(ActionText(t, i))
              /\ transcript'[Len(transcript) + 2].role = "observation"
              /\ transcript'[Len(transcript) + 2].src = "invalid_tool"
              /\ Contains(transcript'[Len(transcript) + 2].obs.text, t)
              /\ Contains(transcript'[Len(transcript) + 2].obs.text,
                          " is not a valid tool, try another one.")]_vars
\* An unknown tool was requested and the run went on to a later iteration.
C8_Witness ==
    /\ status = "Running" /\ iteration_count = 2
    /\ transcript[4].src = "invalid_tool"
    /\ transcript[3] = AssistantTurn(ActionText("delete_resources", "vpc"))
    /\ dispatches = 1

\* The required parameter of a validator is present.
RequiredParamPresent(rtype, params) ==
    IF rtype = "vpc" THEN params.hasCidr /\ params.cidr # ""
    ELSE params.hasName /\ params.name # ""

\* ---- C9
\* C9 (as claimed): for both validators, whenever the CLI listing call fails
\* or its output is not JSON, validate_resource returns an error dict: it
\* neither returns valid=true nor raises.
C9_ValidatorsReportCliFailure ==
    (/\ tool_call.fn = "validate_resource"
     /\ tool_call.rtype \in {"vpc", "bucket"}
     /\ RequiredParamPresent(tool_call.rtype, tool_call.params)
     /\ \/ tool_call.proc.kind # "exit0"
        \/ Len(PrintedBy(tool_call.proc)) # 1
        \/ PrintedBy(tool_call.proc)[1].t \notin {"json", "num"}) =>
        /\ ~tool_call.out.raised
        /\ tool_call.out.val.kind = "error"

\* ---- C10
\* C10: for every bucket name n and requested region r,
\* validate_resource("bucket", {name: n, region: r}) lists the buckets with
\* region r in the argument vector and returns valid=false exactly when the
\* listing printed holds a bucket named n, valid=true otherwise.
C10_BucketConflictIffNameListed ==
    (/\ tool_call.fn = "validate_resource" /\ tool_call.rtype = "bucket"
     /\ tool_call.params.hasName /\ tool_call.params.name # ""
     /\ PrintedListing(tool_call.proc)) =>
        LET n == tool_call.params.name
            r == IF tool_call.params.hasRegion THEN tool_call.params.region
                 ELSE "fr-par"
            l == ListingOf(tool_call.proc)
            present == \E i \in 1..Len(l) : l[i].name = n
            val == tool_call.out.val
            cmds == tool_call.out.cmds
        IN  /\ ~tool_call.out.raised
            /\ val.kind = "valid"
            /\ val.valid = ~present
            /\ Len(cmds) = 1
            /\ \E k \in 1..(Len(cmds[1]) - 1) :
                  cmds[1][k] = <<"region">> /\ cmds[1][k + 1] = <<r>>
\* The bucket is the second one listed, in a region other than the default.
C10_Witness ==
    /\ tool_call.fn = "validate_resource" /\ tool_call.rtype = "bucket"
    /\ tool_call.params.name = "res-b"
    /\ tool_call.params.hasRegion /\ tool_call.params.region = "nl-ams"
    /\ PrintedListing(tool_call.proc)
    /\ Len(ListingOf(tool_call.proc)) = 2
    /\ tool_call.out.val.kind = "valid" /\ ~tool_call.out.val.valid

\* ---- C11
\* C11: a completion call of the loop that fails (network error or non-success
\* status) posts exactly one request, ends the run at once with the upstream
\* exception as its outcome, and no completion call and no tool dispatch
\* follows in that run.
UpstreamErrors == {"HTTPError", "ConnectionError"}
C11_FailedCompletionAbortsWithoutRetry ==
    [][/\ (/\ completion_calls' = completion_calls + 1
           /\ fault'.where = "completion"
           /\ fault'.exc \in UpstreamErrors) =>
              /\ http_requests' = http_requests + 1
              /\ status' = "Failed"
              /\ outcome' = Raised(fault'.exc)
              /\ dispatches' = dispatches
              /\ subprocess_calls' = subprocess_calls
              /\ tool_llm_calls' = tool_llm_calls
              /\ transcript' = transcript
       /\ (status = "Failed" /\ fault.where = "completion") =>
              /\ status' = "Failed"
              /\ outcome' = outcome
              /\ completion_calls' = completion_calls
              /\ http_requests' = http_requests
              /\ dispatches' = dispatches
              /\ tool_llm_calls' = tool_llm_calls]_vars
\* The second completion call of a run got a non-success status.
C11_Witness ==
    /\ status = "Failed" /\ fault = [where |-> "completion", exc |-> "HTTPError",
                                      tool |-> ""]
    /\ completion_calls = 2 /\ http_requests = 2 /\ iteration_count = 1

\* ---- C12
\* C12 (as claimed): for every request to /ui or /agent and every outcome of
\* the run, the caller receives a final text or an error payload: no
\* exception leaves a request handler.
C12_NoFaultEscapesHandlers ==
    response.kind \in {"none", "text", "error"}

\* ---- C13
\* C13 (as claimed): under every interleaving of concurrent first calls to
\* get_agent the agent is constructed at most once, and all callers that
\* have received an agent hold the same instance.
C13_AgentConstructedAtMostOnce ==
    /\ agents_built <= 1
    /\ \A t, u \in Threads :
           (threads[t].agent # 0 /\ threads[u].agent # 0) =>
               threads[t].agent = threads[u].agent

\* ---- C18
\* C18: with several runs going through the cached agent at once, a step of
\* one request changes the status, the iteration count and the transcript of
\* no other request's run, and every turn of a run's transcript (its
\* observations included) was written by that run's own steps.
C18_RunsAreIndependent ==
    /\ [](\A t \in Threads :
             \A i \in 1..Len(threads[t].transcript) :
                 threads[t].transcript[i].by = t)
    /\ [][\A t \in Threads :
             threads'[t].moves # threads[t].moves =>
                 \A u \in Threads \ {t} :
                     /\ threads'[u].status = threads[u].status
                     /\ threads'[u].iteration_count = threads[u].iteration_count
                     /\ threads'[u].transcript = threads[u].transcript]_vars
\* Two requests are past get_agent at once: one run has dispatched two tools
\* and is still running, the other has finished after one dispatch.
C18_Witness ==
    /\ threads[1].pc = "run" /\ threads[2].pc = "run"
    /\ threads[1].agent = threads[2].agent
    /\ threads[1].status = "Running" /\ threads[1].iteration_count = 2
    /\ Len(threads[1].transcript) = 6
    /\ threads[2].status = "Finished" /\ threads[2].iteration_count = 1
    /\ Len(threads[2].transcript) = 4

\* ---- C14
\* C14: when a completion call of the loop returns a text with neither a
\* final answer nor a well-formed action, the run stays Running, the
\* iteration is counted, the transcript gains the completion and an
\* observation describing the parse failure, no tool is dispatched, and the
\* next step of the run is another completion call or, with the budget used
\* up, the end of the run as Exhausted.
C14_ParseFailureBecomesObservation ==
    [][/\ (/\ completion_calls' = completion_calls + 1
           /\ last_completion' # <<>>
           /\ ParseKind(last_completion') = "neither") =>
              /\ status' = "Running"
              /\ iteration_count' = iteration_count + 1
              /\ transcript' = transcript \o
                     <<AssistantTurn(last_completion'),
                       ObservationTurn(ParseErrorObservation, "parse_error")>>
              /\ dispatches' = dispatches
              /\ subprocess_calls' = subprocess_calls
              /\ outcome' = outcome /\ fault' = fault
       /\ (/\ status = "Running" /\ Len(transcript) > 2
           /\ transcript[Len(transcript)].src = "parse_error") =>
              \/ should_continue(iteration_count)
                    /\ completion_calls' = completion_calls + 1
              \/ ~should_continue(iteration_count) /\ status' = "Exhausted"]_vars
\* The second completion of a run had neither part and the run goes on.
C14_Witness ==
    /\ status = "Running" /\ iteration_count = 2 /\ Len(transcript) = 6
    /\ transcript[5] = AssistantTurn(<<W("I will create the VPC now."), WS>>)
    /\ transcript[6] = ObservationTurn(ParseErrorObservation, "parse_error")
    /\ last_completion = <<W("I will create the VPC now."), WS>>

\* ---- C15
\* C15: every iteration of the loop makes exactly one completion call (one
\* request posted) and dispatches at most one tool; a dispatch makes at most
\* one subprocess call, and only for validate_resource or list_resources, or
\* at most one further completion call, and only for generate_terraform,
\* never both; nothing outside an iteration makes any of these calls.  The
\* same bounds hold for the tool functions called directly.
C15_OneCompletionAtMostOneDispatch ==
    /\ [](/\ tool_call.fn \in {"validate_resource", "list_resources"} =>
                 (Len(tool_call.out.cmds) <= 1 /\ tool_call.out.llm = 0)
          /\ tool_call.fn = "generate_terraform" =>
                 (tool_call.out.cmds = <<>> /\ tool_call.out.llm <= 1))
    /\ [][LET dc == completion_calls' - completion_calls
              dh == http_requests' - http_requests
              dd == dispatches' - dispatches
              ds == subprocess_calls' - subprocess_calls
              dl == tool_llm_calls' - tool_llm_calls
              tool == WordOf(ParsedTool(last_completion'))
          IN  /\ (status = "Running" /\ should_continue(iteration_count)) =>
                     (dc = 1 /\ dh = 1)
              /\ ~(status = "Running" /\ should_continue(iteration_count)) =>
                     (dc = 0 /\ dh = 0 /\ dd = 0 /\ ds = 0 /\ dl = 0)
              /\ dd \in {0, 1} /\ ds \in {0, 1} /\ dl \in {0, 1}
              /\ ds + dl <= dd
              /\ ds = 1 => tool \in {"validate_resource", "list_resources"}
              /\ dl = 1 => tool = "generate_terraform"]_vars
\* A run whose three iterations each dispatched a tool: two subprocess calls
\* and one further completion call.
C15_Witness ==
    /\ iteration_count = 3 /\ completion_calls = 3 /\ dispatches = 3
    /\ subprocess_calls = 2 /\ tool_llm_calls = 1 /\ http_requests = 3

\* ---- C16
\* C16 (as claimed): for every outcome of the subprocess, the text run_cli
\* returns starts with "CLI Error" exactly when the subprocess exited
\* non-zero, and a validator that called the CLI reports a CLI error exactly
\* when that call exited non-zero.
C16_CliErrorPrefixIffNonZeroExit ==
    /\ (tool_call.fn = "run_cli" /\ ~tool_call.out.raised) =>
           (StartsWithCliError(tool_call.out.val.text) <=>
               tool_call.proc.kind = "nonzero")
    /\ (/\ tool_call.fn = "validate_resource"
        /\ ~tool_call.out.raised
        /\ tool_call.out.cmds # <<>>) =>
           ((/\ tool_call.out.val.kind = "error"
             /\ StartsWithCliError(tool_call.out.val.text)) <=>
               tool_call.proc.kind = "nonzero")

\* ---- C17
\* C17: when every call a step makes returns or fails, a run that is Running
\* eventually ends as Finished, Exhausted or Failed; a Finished run has
\* returned a text, an Exhausted run the stopped response, a Failed run has
\* raised; and once a run has ended its status, its iteration count and its
\* transcript never change.
C17_EveryRunEnds ==
    /\ (status = "Running") ~> (status \in Ended)
    /\ [](/\ status = "Finished" => outcome.kind = "returned"
          /\ status = "Exhausted" => outcome = Returned(StoppedResponse)
          /\ status = "Failed" => outcome.kind = "raised"
          /\ status \in {"Idle", "Running"} => outcome = NoResult)
    /\ [][(status \in Ended) =>
             (/\ status' = status
              /\ iteration_count' = iteration_count
              /\ transcript' = transcript)]_vars
\* A run that used up its budget has ended and its response has been sent.
C17_Witness ==
    /\ status = "Exhausted" /\ iteration_count = max_iterations
    /\ Len(transcript) = 2 + 2 * max_iterations
    /\ response = [endpoint |-> "/ui", kind |-> "text", text |-> StoppedResponse]

\* ---- C19
\* The observation turn o is the one the completion of the assistant turn a
\* produces: the named tool's, the invalid-tool notice, or the parse failure.
ProducedBy(a, o) ==
    LET kind == ParseKind(a.text)
        tool == WordOf(ParsedTool(a.text))
    IN  /\ kind # "final"
        /\ kind \in {"neither", "both"} =>
               o = ObservationTurn(ParseErrorObservation, "parse_error")
        /\ (kind = "action" /\ tool \notin ToolNames) =>
               o = ObservationTurn(InvalidToolObservation(tool), "invalid_tool")
        /\ (kind = "action" /\ tool \in ToolNames) => o.src = tool

\* C19: a step of a run never removes or rewrites a turn of the transcript
\* (the transcript before the step is a prefix of the one after it), and the
\* transcript of a run is the system turn, the user turn, then assistant and
\* observation turns in strict alternation, every observation right after
\* the assistant turn whose completion produced it.
C19_TranscriptGrowsInOrder ==
    /\ [](/\ status = "Idle" <=> transcript = <<>>
          /\ transcript # <<>> =>
                /\ Len(transcript) >= 2 /\ Len(transcript) % 2 = 0
                /\ transcript[1] = SystemTurn
                /\ transcript[2].role = "user"
                /\ \A i \in 3..Len(transcript) :
                       IF i % 2 = 1
                       THEN transcript[i].role = "assistant"
                       ELSE /\ transcript[i].role = "observation"
                            /\ ProducedBy(transcript[i - 1], transcript[i]))
    /\ [][/\ Len(transcript') >= Len(transcript)
          /\ SubSeq(transcript', 1, Len(transcript)) = transcript]_vars
\* A transcript with a tool's observation, a parse failure and an
\* invalid-tool notice, in that order.
C19_Witness ==
    /\ Len(transcript) = 8
    /\ transcript[4].src = "list_resources"
    /\ transcript[6].src = "parse_error"
    /\ transcript[8].src = "invalid_tool"

\* ---- C20
\* C20: validate_resource called for "vpc" without a cidr, for "bucket"
\* without a name, or for any other resource type returns an error dict
\* without raising and without a single subprocess call; whenever it did
\* call the CLI, the resource type was "vpc" or "bucket" and the required
\* parameter was present and non-empty.
C20_RejectsBeforeCli ==
    tool_call.fn = "validate_resource" =>
        /\ (\/ tool_call.rtype \notin {"vpc", "bucket"}
            \/ ~RequiredParamPresent(tool_call.rtype, tool_call.params)) =>
               /\ ~tool_call.out.raised
               /\ tool_call.out.val.kind = "error"
               /\ tool_call.out.cmds = <<>>
        /\ tool_call.out.cmds # <<>> =>
               /\ tool_call.rtype \in {"vpc", "bucket"}
               /\ RequiredParamPresent(tool_call.rtype, tool_call.params)
\* A vpc request whose cidr is the empty str, with a CLI that would have
\* answered, is rejected without a subprocess call.
C20_Witness ==
    /\ tool_call.fn = "validate_resource" /\ tool_call.rtype = "vpc"
    /\ tool_call.params.hasCidr /\ tool_call.params.cidr = ""
    /\ tool_call.proc.kind = "exit0"
    /\ tool_call.out =
          Return(ErrorDict(<<W("Missing 'cidr' parameter for VPC validation.")>>),
                 <<>>, 0)

====
